---------------------------- MODULE Spec2Model ----------------------------
(***************************************************************************)
(* A model of github.com/pxi/x: package aws (credential resolution,        *)
(* session key derivation and Signature Version 4 request signing).        *)
(*                                                                         *)
(* Strings are sequences of byte codes (ASCII), so that lower-casing,      *)
(* trimming, byte-wise sorting and joining are computed as the Go code     *)
(* computes them.  SHA-256 and HMAC-SHA256 are symbolic: a digest is its   *)
(* input between brackets that are no bytes (codes above 255), so two      *)
(* digests are equal exactly when their inputs are (no collisions).        *)
(***************************************************************************)
EXTENDS Integers, Sequences, FiniteSets, TLC

VARIABLES
    env,        \* the process environment: variable name -> value
    conf,       \* the Config under construction: [kid, key, tok]
    got,        \* NewSession's locals after c.credentials(), or None
    sess,       \* the Session returned by the last NewSession, or None
    sessErr,    \* the error returned by the last NewSession
    credIn,     \* the credentials struct handed to the last credentials.Init
    cred,       \* that struct after Init
    credErr,    \* the error Init returned
    consulted,  \* how many providers' Get the last Init called
    req,        \* the http.Request being signed, or None
    heap,       \* the body objects: pointer -> reader state
    pre,        \* [req, heap, sess]: the arguments of the last sign, as called
    res,        \* what the last sign returned, [err, creq, sts], and the
                \* reading of time.Now() it made, if any
    hdrs,       \* a request handed to canonicalHeaders: [Host, URLHost, Header]
    canon,      \* what canonicalHeaders returned for it, or None
    again,      \* [req, out]: a request with the same header entries put in
                \* in another order, and what canonicalHeaders returned for it
    calls,      \* the sign calls running at once on one Session: for each
                \* goroutine its position in sign, its request and its locals
    cd          \* a call of envrc.Chdir: the file system, a and b, and once it
                \* has returned the callbacks it made and its error

vars == <<env, conf, got, sess, sessErr, credIn, cred, credErr,
          consulted, req, heap, pre, res, hdrs, canon, again, calls, cd>>

\* An absent value (a nil pointer, nothing returned yet) is the empty tuple; a
\* present value x is the one-element tuple <<x>>.
None == << >>
Some(x) == <<x>>
nil == "nil"

------------------------------------------------------------------------------
(* Bounds of the model.                                                    *)

\* The clock shows the seconds 0..MaxTime.
MaxTime == 3
\* Seconds in a day, scaled down with the clock.
SecondsPerDay == 2
\* Longest body, in bytes.
MaxBody == 1

------------------------------------------------------------------------------
(* Byte strings.                                                           *)

Empty == << >>

Min(a, b) == IF a < b THEN a ELSE b

\* Go's string comparison a < b: byte-wise, a proper prefix sorts first.
StrLess(a, b) ==
    \E i \in 1..(Min(Len(a), Len(b)) + 1) :
        /\ \A j \in 1..(i - 1) : a[j] = b[j]
        /\ \/ i > Len(a) /\ i <= Len(b)
           \/ i <= Len(a) /\ i <= Len(b) /\ a[i] < b[i]

\* strings.ToLower on ASCII.
LowerByte(c) == IF c >= 65 /\ c <= 90 THEN c + 32 ELSE c
ToLower(s) == [i \in 1..Len(s) |-> LowerByte(s[i])]

RECURSIVE Join(_, _)
\* strings.Join(ss, sep).
Join(ss, sepr) ==
    IF Len(ss) = 0 THEN Empty
    ELSE IF Len(ss) = 1 THEN ss[1]
    ELSE ss[1] \o sepr \o Join(Tail(ss), sepr)

RECURSIVE Insert(_, _)
Insert(x, sorted) ==
    IF Len(sorted) = 0 THEN <<x>>
    ELSE IF StrLess(sorted[1], x) THEN <<sorted[1]>> \o Insert(x, Tail(sorted))
    ELSE <<x>> \o sorted

RECURSIVE SortStrings(_)
\* sort.Strings(ss): ascending in Go's string order.
SortStrings(ss) ==
    IF Len(ss) = 0 THEN << >> ELSE Insert(ss[1], SortStrings(Tail(ss)))

IsSpace(c) == c \in {9, 10, 11, 12, 13, 32}

RECURSIVE Fields(_, _)
\* strings.Fields(s): the maximal runs of non-space bytes; cur is the run
\* being collected.
Fields(s, cur) ==
    IF Len(s) = 0 THEN (IF Len(cur) = 0 THEN << >> ELSE <<cur>>)
    ELSE IF IsSpace(s[1])
         THEN (IF Len(cur) = 0 THEN << >> ELSE <<cur>>) \o Fields(Tail(s), Empty)
         ELSE Fields(Tail(s), Append(cur, s[1]))

\* Decimal digits of a small number.
Digits(n) == IF n < 10 THEN <<48 + n>> ELSE <<48 + (n \div 10), 48 + (n % 10)>>

------------------------------------------------------------------------------
(* Symbolic hashing.                                                       *)

ShaOpen == 256
HmacOpen == 257
HmacSep == 258
HexOpen == 259
DigestEnd == 260

\* sha256.New(); Write(s); Sum(nil)
Sha256(s) == <<ShaOpen>> \o s \o <<DigestEnd>>
\* hmac.New(sha256.New, k); Write(s); Sum(nil)
Hmac(k, s) == <<HmacOpen>> \o k \o <<HmacSep>> \o s \o <<DigestEnd>>
\* hex.EncodeToString(b), fmt.Fprintf("%x", b)
Hex(b) == <<HexOpen>> \o b \o <<DigestEnd>>

------------------------------------------------------------------------------
(* Time.                                                                   *)

\* A time.Time in UTC: seconds since the epoch, and nanoseconds.
Times == [sec : 0..MaxTime, nsec : 0..1]

Day(t) == t.sec \div SecondsPerDay
SecondOfDay(t) == t.sec % SecondsPerDay

\* t.Format(dateFormat), "20060102"
FormatDate(t) == Digits(Day(t))
\* t.Format(TimeFormat), "20060102T150405Z": whole seconds only
FormatTime(t) == Digits(Day(t)) \o <<84>> \o Digits(SecondOfDay(t)) \o <<90>>
\* The text http.ParseTime accepts, "... 15:04:05 GMT"
FormatHTTP(t) ==
    Digits(Day(t)) \o <<32>> \o Digits(SecondOfDay(t)) \o <<32, 71, 77, 84>>

WholeTimes == {t \in Times : t.nsec = 0}

\* time.Parse(TimeFormat, text)
ParseTime(text) ==
    IF \E t \in WholeTimes : FormatTime(t) = text
    THEN [err |-> nil, t |-> CHOOSE t \in WholeTimes : FormatTime(t) = text]
    ELSE [err |-> "ParseError", t |-> [sec |-> 0, nsec |-> 0]]

\* http.ParseTime(text)
ParseHTTPTime(text) ==
    IF \E t \in WholeTimes : FormatHTTP(t) = text
    THEN [err |-> nil, t |-> CHOOSE t \in WholeTimes : FormatHTTP(t) = text]
    ELSE [err |-> "ParseError", t |-> [sec |-> 0, nsec |-> 0]]

------------------------------------------------------------------------------
(* Credentials: aws.go (Config) and cred.go (credentials.Init).            *)

accessKeyEnvVars == <<"AWS_ACCESS_KEY_ID", "AWS_ACCESS_KEY">>
secretKeyEnvVars == <<"AWS_SECRET_ACCESS_KEY", "AWS_SECRET_KEY">>
sessionTokenEnvVars == <<"AWS_SESSION_TOKEN">>

ErrNoCredentials == "aws: no credentials found"

aws4 == <<65, 87, 83, 52>>                                       \* "AWS4"
aws4Request == <<97, 119, 115, 52, 95, 114, 101, 113, 117, 101, 115, 116>>

\* What each environment variable may hold: nothing, or a value of its own.
EnvChoices ==
    [AWS_ACCESS_KEY_ID     |-> {Empty, <<107, 49>>},             \* "k1"
     AWS_ACCESS_KEY        |-> {Empty, <<107, 50>>},             \* "k2"
     AWS_SECRET_ACCESS_KEY |-> {Empty, <<115, 49>>},             \* "s1"
     AWS_SECRET_KEY        |-> {Empty, <<115, 50>>},             \* "s2"
     AWS_SESSION_TOKEN     |-> {Empty, <<116, 49>>}]             \* "t1"

EnvVars == DOMAIN EnvChoices
Envs == {e \in [EnvVars -> UNION {EnvChoices[v] : v \in EnvVars}] :
            \A v \in EnvVars : e[v] \in EnvChoices[v]}
NoEnv == [v \in EnvVars |-> Empty]

\* The values the options are called with.
KeyIDs == {Empty, <<65, 75>>}                                    \* "AK"
SecretKeys == {Empty, <<83, 75>>}                                \* "SK"
SessionTokens == {Empty, <<84, 75>>}                             \* "TK"

Regions == {<<117, 115, 45, 101, 97, 115, 116, 45, 49>>}         \* "us-east-1"
Services == {<<115, 101, 114, 118, 105, 99, 101>>}               \* "service"

RECURSIVE maybeLoadLoop(_, _, _, _)
maybeLoadLoop(vs, vrs, e, i) ==
    IF i < Len(vrs) /\ vs = Empty
    THEN maybeLoadLoop(e[vrs[i + 1]], vrs, e, i + 1)
    ELSE vs

\* A plausible bug: the environment is consulted even for a field that is set.
maybeLoadFromEnv_override(s, vrs, e) ==
    IF e[vrs[1]] # Empty THEN e[vrs[1]] ELSE maybeLoadLoop(s, vrs, e, 0)

\* maybeLoadFromEnv(&s, vars): the value *s holds afterwards.
maybeLoadFromEnv(s, vrs, e) == maybeLoadLoop(s, vrs, e, 0)

\* (c *Config) credentials(): the three results, and the Config afterwards
\* (the fields are copied into locals before the environment is consulted).
credentials(c, e) ==
    [kid  |-> maybeLoadFromEnv(c.kid, accessKeyEnvVars, e),
     key  |-> maybeLoadFromEnv(c.key, secretKeyEnvVars, e),
     tok  |-> maybeLoadFromEnv(c.tok, sessionTokenEnvVars, e),
     conf |-> c]

RECURSIVE deriveKey(_, _, _)
\* The loop of NewSession that derives the signing key; k is the key of the
\* current hmac, i the (0-based) index into scope.
deriveKey(k, scope, i) ==
    IF i = Len(scope) - 1 THEN Hmac(k, scope[i + 1])
    ELSE deriveKey(Hmac(k, scope[i + 1]), scope, i + 1)

\* A plausible bug: the session token is required as well.
NewSessionResult_needsToken(c, e, t, region, service) ==
    LET r == credentials(c, e)
        scope == <<r.kid, FormatDate(t), region, service, aws4Request>>
    IN  IF r.kid = Empty \/ r.key = Empty \/ r.tok = Empty
        THEN [locals |-> r, sess |-> None, err |-> ErrNoCredentials]
        ELSE [locals |-> r,
              sess |-> Some([token |-> r.tok, scope |-> scope,
                             key |-> deriveKey(aws4 \o r.key, scope, 1)]),
              err |-> nil]

\* (c *Config) NewSession(region, service) at time t.
NewSessionResult(c, e, t, region, service) ==
    LET r == credentials(c, e)
        scope == <<r.kid, FormatDate(t), region, service, aws4Request>>
    IN  IF r.kid = Empty \/ r.key = Empty
        THEN [locals |-> r, sess |-> None, err |-> ErrNoCredentials]
        ELSE [locals |-> r,
              sess |-> Some([token |-> r.tok, scope |-> scope,
                             key |-> deriveKey(aws4 \o r.key, scope, 1)]),
              err |-> nil]

\* cred.go: the package-level provider list.
providers == <<"environ">>

\* (e environ) Get(ctx, cred)
environGet(c, e) ==
    [c |-> [KeyID        |-> maybeLoadFromEnv(c.KeyID, accessKeyEnvVars, e),
            SecretKey    |-> maybeLoadFromEnv(c.SecretKey, secretKeyEnvVars, e),
            SessionToken |-> maybeLoadFromEnv(c.SessionToken, sessionTokenEnvVars, e)],
     err |-> nil]

\* providers[i].Get(ctx, c)
providerGet(p, c, e) == environGet(c, e)

RECURSIVE credentialsInitLoop(_, _, _)
\* (c *credentials) Init(ctx): the struct afterwards, the error, and the
\* number of providers whose Get was called.
credentialsInitLoop(c, e, i) ==
    IF c.KeyID = Empty /\ c.SecretKey = Empty /\ i < Len(providers)
    THEN LET r == providerGet(providers[i + 1], c, e)
         IN  IF r.err # nil
             THEN [c |-> r.c, err |-> r.err, consulted |-> i + 1]
             ELSE credentialsInitLoop(r.c, e, i + 1)
    ELSE [c |-> c,
          err |-> IF c.KeyID = Empty \/ c.SecretKey = Empty
                  THEN ErrNoCredentials ELSE nil,
          consulted |-> i]

credentialsInit(c, e) == credentialsInitLoop(c, e, 0)

------------------------------------------------------------------------------
(* Actions of the credential part.                                         *)

credVars == <<credIn, cred, credErr, consulted>>
sessVars == <<got, sess, sessErr>>
signVars == <<req, heap, pre, res>>
canonVars == <<hdrs, canon, again>>
concVars == <<calls>>
envrcVars == <<cd>>

\* Configure(WithKeyID(s)) / SetOptions(WithKeyID(s))
WithKeyID(s) ==
    /\ conf' = [conf EXCEPT !.kid = s]
    /\ UNCHANGED <<env, sessVars, credVars, signVars, canonVars, concVars, envrcVars>>

WithSecretKey(s) ==
    /\ conf' = [conf EXCEPT !.key = s]
    /\ UNCHANGED <<env, sessVars, credVars, signVars, canonVars, concVars, envrcVars>>

WithSessionToken(s) ==
    /\ conf' = [conf EXCEPT !.tok = s]
    /\ UNCHANGED <<env, sessVars, credVars, signVars, canonVars, concVars, envrcVars>>

\* c.NewSession(region, service), with now() returning t.
NewSession(region, service, t) ==
    LET r == NewSessionResult(conf, env, t, region, service)
    IN  /\ got' = Some([conf0 |-> conf, conf1 |-> r.locals.conf,
                        kid |-> r.locals.kid, key |-> r.locals.key,
                        tok |-> r.locals.tok])
        /\ conf' = r.locals.conf
        /\ sess' = r.sess
        /\ sessErr' = r.err
        /\ UNCHANGED <<env, credVars, signVars, canonVars, concVars, envrcVars>>

\* c.Init(ctx) on a credentials struct holding the explicit values.
CredentialsInit(c) ==
    LET r == credentialsInit(c, env)
    IN  /\ credIn' = Some(c)
        /\ cred' = Some(r.c)
        /\ credErr' = r.err
        /\ consulted' = r.consulted
        /\ UNCHANGED <<env, conf, sessVars, signVars, canonVars, concVars, envrcVars>>

CredStructs == [KeyID : KeyIDs, SecretKey : SecretKeys, SessionToken : SessionTokens]

InitCommon ==
    /\ got = None /\ sess = None /\ sessErr = nil
    /\ credIn = None /\ cred = None /\ credErr = nil /\ consulted = 0
    /\ req = None /\ heap = << >> /\ pre = None /\ res = None
    /\ hdrs = None /\ canon = None /\ again = None
    /\ calls = << >>
    /\ cd = None

\* Configure() with no options, in any environment.
InitCred ==
    /\ env \in Envs
    /\ conf = [kid |-> Empty, key |-> Empty, tok |-> Empty]
    /\ InitCommon

NextCred ==
    \/ \E s \in KeyIDs : WithKeyID(s)
    \/ \E s \in SecretKeys : WithSecretKey(s)
    \/ \E s \in SessionTokens : WithSessionToken(s)
    \/ \E r \in Regions, s \in Services, t \in Times : NewSession(r, s, t)

SpecCred == InitCred /\ [][NextCred]_vars

\* credentials.Init on every explicit struct, in any environment.
NextInit == \E c \in CredStructs : CredentialsInit(c)

SpecInit == InitCred /\ [][NextInit]_vars

------------------------------------------------------------------------------
(* Claims about credential resolution, checked under SpecCred (C1, C2) and  *)
(* SpecInit (C3).                                                          *)

\* The explicit value followed by the values of the aliases, in list order.
Candidates(x, vrs) == <<x>> \o [i \in 1..Len(vrs) |-> env[vrs[i]]]

\* The first non-empty string of a list, or the empty string.
FirstNonEmpty(ss) ==
    IF \E i \in 1..Len(ss) : ss[i] # Empty
    THEN ss[CHOOSE i \in 1..Len(ss) :
                /\ ss[i] # Empty
                /\ \A j \in 1..(i - 1) : ss[j] = Empty]
    ELSE Empty

\* C1: NewSession succeeds (a Session, no error) exactly when the key ID and
\* the secret key are both non-empty after resolution (explicit value, else
\* the environment), and otherwise returns ErrNoCredentials and no Session;
\* the session token plays no part.
C1_NewSessionIffKeyAndSecret ==
    got # None =>
        LET kid == FirstNonEmpty(Candidates(got[1].conf0.kid, accessKeyEnvVars))
            key == FirstNonEmpty(Candidates(got[1].conf0.key, secretKeyEnvVars))
        IN  IF kid # Empty /\ key # Empty
            THEN sessErr = nil /\ sess # None
            ELSE sessErr = ErrNoCredentials /\ sess = None

\* A NewSession that succeeded with credentials from the environment and an
\* empty session token.
C1_Witness ==
    /\ got # None /\ sess # None /\ sessErr = nil
    /\ got[1].conf0.kid = Empty /\ got[1].key # Empty
    /\ got[1].tok = Empty

\* C2: Config.credentials resolves each field on its own: an explicit
\* non-empty value is returned unchanged, an empty field takes the first
\* non-empty alias in list order, it stays empty only if every alias is
\* empty; and the Config is the same after the call.
C2_CredentialsPrecedence ==
    got # None =>
        /\ got[1].kid = FirstNonEmpty(Candidates(got[1].conf0.kid, accessKeyEnvVars))
        /\ got[1].key = FirstNonEmpty(Candidates(got[1].conf0.key, secretKeyEnvVars))
        /\ got[1].tok = FirstNonEmpty(Candidates(got[1].conf0.tok, sessionTokenEnvVars))
        /\ got[1].conf0.kid # Empty => got[1].kid = got[1].conf0.kid
        /\ got[1].conf0.key # Empty => got[1].key = got[1].conf0.key
        /\ got[1].conf0.tok # Empty => got[1].tok = got[1].conf0.tok
        /\ got[1].conf1 = got[1].conf0

\* The key ID came from the second alias because the first was empty, while
\* an explicit secret key won over a secret key in the environment.
C2_Witness ==
    /\ got # None
    /\ got[1].conf0.kid = Empty
    /\ env["AWS_ACCESS_KEY_ID"] = Empty /\ env["AWS_ACCESS_KEY"] # Empty
    /\ got[1].kid = env["AWS_ACCESS_KEY"]
    /\ got[1].conf0.key # Empty /\ env["AWS_SECRET_ACCESS_KEY"] # Empty
    /\ got[1].key = got[1].conf0.key

\* C3 (as claimed): credentials.Init keeps consulting providers while the key
\* ID or the secret key is empty: when exactly one of the two was supplied the
\* providers are still consulted, Init stops early only once both are
\* non-empty, and ErrNoCredentials is returned only after every provider was
\* tried.
C3_InitConsultsWhileEitherEmpty ==
    credIn # None =>
        /\ (credIn[1].KeyID = Empty) # (credIn[1].SecretKey = Empty) => consulted >= 1
        /\ consulted < Len(providers) =>
               cred[1].KeyID # Empty /\ cred[1].SecretKey # Empty
        /\ credErr = ErrNoCredentials =>
               /\ consulted = Len(providers)
               /\ cred[1].KeyID = Empty \/ cred[1].SecretKey = Empty

------------------------------------------------------------------------------
(* Signing: aws.go, Session.sign and what it calls.                        *)

DateHeader == <<88, 45, 65, 109, 122, 45, 68, 97, 116, 101>>     \* "X-Amz-Date"
\* "Date", the key h.Get("date") looks up
HTTPDateHeader == <<68, 97, 116, 101>>
\* "X-Amz-Content-Sha256"
PayloadHashHeader ==
    <<88, 45, 65, 109, 122, 45, 67, 111, 110, 116, 101, 110, 116, 45, 83, 104,
      97, 50, 53, 54>>
\* "UNSIGNED-PAYLOAD"
UnsignedPayload ==
    <<85, 78, 83, 73, 71, 78, 69, 68, 45, 80, 65, 89, 76, 79, 65, 68>>
\* "X-Amz-Security-Token"
securityToken ==
    <<88, 45, 65, 109, 122, 45, 83, 101, 99, 117, 114, 105, 116, 121, 45, 84,
      111, 107, 101, 110>>
\* "Authorization"
AuthorizationHeader ==
    <<65, 117, 116, 104, 111, 114, 105, 122, 97, 116, 105, 111, 110>>
\* "AWS4-HMAC-SHA256"
Algorithm ==
    <<65, 87, 83, 52, 45, 72, 77, 65, 67, 45, 83, 72, 65, 50, 53, 54>>
\* " Credential="
CredentialPart == <<32, 67, 114, 101, 100, 101, 110, 116, 105, 97, 108, 61>>
\* ", SignedHeaders="
SignedHeadersPart ==
    <<44, 32, 83, 105, 103, 110, 101, 100, 72, 101, 97, 100, 101, 114, 115, 61>>
\* ", Signature="
SignaturePart == <<44, 32, 83, 105, 103, 110, 97, 116, 117, 114, 101, 61>>
HostName == <<104, 111, 115, 116>>                               \* "host"

NL == <<10>>

\* nilSum, the SHA-256 of the empty string in hex.
nilSum == Hex(Sha256(Empty))

\* h.Get(k): the first value under k, or "".
Get(h, k) == IF k \in DOMAIN h /\ Len(h[k]) > 0 THEN h[k][1] ELSE Empty

\* h.Set(k, v): k holds the single value v.
Set(h, k, v) == [x \in (DOMAIN h) \cup {k} |-> IF x = k THEN <<v>> ELSE h[x]]

\* io.Copy(dst, o): everything from the current position to the end is
\* read; a failing reader reports its error instead of EOF.
ReadAll(o) ==
    [bytes |-> SubSeq(o.data, o.pos + 1, Len(o.data)),
     err   |-> IF o.readErr THEN "ReadError" ELSE nil,
     o     |-> [o EXCEPT !.pos = Len(o.data), !.reads = @ + 1]]

\* A plausible bug: the payload is not rewound after hashing.
HashPayload_noRewind(o) ==
    LET r == ReadAll(o)
    IN  IF r.err # nil THEN [sum |-> Empty, err |-> r.err, o |-> r.o]
        ELSE [sum |-> Hex(Sha256(r.bytes)), err |-> nil, o |-> r.o]

\* HashPayload(p): the digest, the error, and the payload afterwards.
HashPayload(o) ==
    LET r == ReadAll(o)
    IN  IF r.err # nil THEN [sum |-> Empty, err |-> r.err, o |-> r.o]
        ELSE IF r.o.seekErr
             THEN [sum |-> Hex(Sha256(r.bytes)), err |-> "SeekError",
                   o |-> [r.o EXCEPT !.seeks = @ + 1]]
             ELSE [sum |-> Hex(Sha256(r.bytes)), err |-> nil,
                   o |-> [r.o EXCEPT !.pos = 0, !.seeks = @ + 1]]

\* ioutil.NopCloser(b) for the bytes.Buffer b the body was copied into.
NewBuffer(bytes) ==
    [kind |-> "reader", data |-> bytes, pos |-> 0, readErr |-> FALSE,
     seekErr |-> FALSE, reads |-> 0, seeks |-> 0]

\* digestBody(req): the digest, the error, the request and the heap
\* afterwards.
digestBody(r, hp) ==
    IF r.Body \in {"nil", "NoBody"}
    THEN [sum |-> nilSum, err |-> nil, req |-> r, heap |-> hp]
    ELSE IF hp[r.Body].kind = "seeker"
    THEN LET p == HashPayload(hp[r.Body])
         IN  [sum |-> p.sum, err |-> p.err, req |-> r,
              heap |-> [hp EXCEPT ![r.Body] = p.o]]
    ELSE LET c == ReadAll(hp[r.Body])
         IN  IF c.err # nil
             THEN [sum |-> Empty, err |-> c.err, req |-> r,
                   heap |-> [hp EXCEPT ![r.Body] = c.o]]
             ELSE [sum |-> Hex(Sha256(c.bytes)), err |-> nil,
                   req |-> [r EXCEPT !.Body = "buf"],
                   heap |-> [hp EXCEPT ![r.Body] = c.o] @@ ("buf" :> NewBuffer(c.bytes))]

\* A plausible bug: the date header is stamped whenever X-Amz-Date is not
\* usable, a Date header notwithstanding.
ensureDate_ignoresDate(h, t) ==
    IF Get(h, DateHeader) # Empty
    THEN LET p == ParseTime(Get(h, DateHeader))
         IN  [t |-> p.t, err |-> p.err, h |-> h, now |-> None]
    ELSE [t |-> t, err |-> nil, h |-> Set(h, DateHeader, FormatTime(t)),
          now |-> Some(t)]

\* ensureDate(h), with time.Now().UTC() returning t: the request time, the
\* error, the header afterwards, and the clock reading if one was made.
ensureDate(h, t) ==
    IF Get(h, DateHeader) # Empty
    THEN LET p == ParseTime(Get(h, DateHeader))
         IN  [t |-> p.t, err |-> p.err, h |-> h, now |-> None]
    ELSE IF Get(h, HTTPDateHeader) # Empty
    THEN LET p == ParseHTTPTime(Get(h, HTTPDateHeader))
         IN  [t |-> p.t, err |-> p.err, h |-> h, now |-> None]
    ELSE [t |-> t, err |-> nil, h |-> Set(h, DateHeader, FormatTime(t)),
          now |-> Some(t)]

\* strings.Trim(s, " ")
RECURSIVE TrimLeft(_)
TrimLeft(s) == IF Len(s) > 0 /\ s[1] = 32 THEN TrimLeft(Tail(s)) ELSE s
RECURSIVE TrimRight(_)
TrimRight(s) ==
    IF Len(s) > 0 /\ s[Len(s)] = 32 THEN TrimRight(SubSeq(s, 1, Len(s) - 1)) ELSE s
Trim(s) == TrimRight(TrimLeft(s))

\* The closure trim of canonicalHeaders.
trim(s) == Join(Fields(Trim(s), Empty), <<32>>)

\* The orders in which ranging over a map with key set K can visit it.
Perms(K) ==
    {f \in [1..Cardinality(K) -> K] :
        \A i, j \in 1..Cardinality(K) : i # j => f[i] # f[j]}

\* canonicalHeaders(req), the map being ranged over in the given order: the
\* canonical headers and the signed header names.
canonicalHeaders(r, order) ==
    LET host == IF r.Host = Empty THEN r.URL.Host ELSE r.Host
        line(k) == ToLower(k) \o <<58>> \o
                   Join([i \in 1..Len(r.Header[k]) |-> trim(r.Header[k][i])], <<44>>)
        c == <<HostName \o <<58>> \o ToLower(host)>> \o
             [i \in 1..Len(order) |-> line(order[i])]
        sn == <<HostName>> \o [i \in 1..Len(order) |-> ToLower(order[i])]
    IN  [canon  |-> Join(SortStrings(c), NL) \o NL,
         signed |-> Join(SortStrings(sn), <<59>>)]

\* canonicalURI(u) and canonicalQueryString(u).  Only requests with a clean
\* path and no query string are modelled, for which these are the path and
\* the empty string.
canonicalURI(u) == u.Path
canonicalQueryString(u) == Empty

\* A plausible bug: the body is digested whatever the payload hash header
\* holds.
payloadDigest_always(r, hp) == digestBody(r, hp)

\* The first lines of Session.sign: the payload digest is the value of the
\* payload hash header if there is one, and the digest of the body if not.
payloadDigest(r, hp) ==
    IF Get(r.Header, PayloadHashHeader) = Empty
    THEN digestBody(r, hp)
    ELSE [sum |-> Get(r.Header, PayloadHashHeader), err |-> nil,
          req |-> r, heap |-> hp]

\* A plausible bug: a security token the request already carries is kept.
setToken_keepsPrior(s, h) ==
    IF s.token # Empty /\ securityToken \notin DOMAIN h
    THEN Set(h, securityToken, s.token) ELSE h

\* Session.sign: the security token header.
setToken(s, h) == IF s.token # Empty THEN Set(h, securityToken, s.token) ELSE h

\* A plausible bug: the security token is set before the date is looked at.
signPrepare_tokenFirst(s, r, hp, t) ==
    LET afterDate(d, e) ==
            IF e.err # nil
            THEN [err |-> e.err, req |-> [d.req EXCEPT !.Header = e.h],
                  heap |-> d.heap, now |-> e.now]
            ELSE [err |-> nil, now |-> e.now,
                  req |-> [d.req EXCEPT !.Header = e.h],
                  heap |-> d.heap, bodyDigest |-> d.sum, reqTime |-> e.t]
        afterDigest(d) ==
            IF d.err # nil
            THEN [err |-> d.err, req |-> d.req, heap |-> d.heap, now |-> None]
            ELSE afterDate(d, ensureDate(setToken(s, d.req.Header), t))
    IN  afterDigest(payloadDigest(r, hp))

\* Session.sign up to canonicalization: the payload digest, the date and the
\* security token.
signPrepare(s, r, hp, t) ==
    LET afterDate(d, e) ==
            IF e.err # nil
            THEN [err |-> e.err, req |-> [d.req EXCEPT !.Header = e.h],
                  heap |-> d.heap, now |-> e.now]
            ELSE [err |-> nil, now |-> e.now,
                  req |-> [d.req EXCEPT !.Header = setToken(s, e.h)],
                  heap |-> d.heap, bodyDigest |-> d.sum, reqTime |-> e.t]
        afterDigest(d) ==
            IF d.err # nil
            THEN [err |-> d.err, req |-> d.req, heap |-> d.heap, now |-> None]
            ELSE afterDate(d, ensureDate(d.req.Header, t))
    IN  afterDigest(payloadDigest(r, hp))

\* The Authorization header value.
authorization(s, signedHeaders, sts) ==
    Algorithm \o CredentialPart \o Join(s.scope, <<47>>) \o
    SignedHeadersPart \o signedHeaders \o
    SignaturePart \o Hex(Hmac(s.key, sts))

\* The canonical request.
canonicalRequest(r, ch, bodyDigest) ==
    r.Method \o NL \o canonicalURI(r.URL) \o NL \o
    canonicalQueryString(r.URL) \o NL \o ch.canon \o NL \o
    ch.signed \o NL \o bodyDigest

\* The string to sign.
stringToSign(s, reqTime, creq) ==
    Algorithm \o NL \o FormatTime(reqTime) \o NL \o
    Join(Tail(s.scope), <<47>>) \o NL \o Hex(Sha256(creq))

\* Session.sign from canonicalization on.
signFinish(s, p, order) ==
    LET withSts(ch, creq, sts) ==
            [req |-> [p.req EXCEPT !.Header =
                         Set(@, AuthorizationHeader, authorization(s, ch.signed, sts))],
             creq |-> creq, sts |-> sts]
        withCreq(ch, creq) == withSts(ch, creq, stringToSign(s, p.reqTime, creq))
        withHeaders(ch) == withCreq(ch, canonicalRequest(p.req, ch, p.bodyDigest))
    IN  withHeaders(canonicalHeaders(p.req, order))

------------------------------------------------------------------------------
(* Actions of the signing part.                                            *)

Method == <<71, 69, 84>>                                         \* "GET"
Root == <<47>>                                                   \* "/"
URLHost == <<104, 46, 105, 111>>                                 \* "h.io"

\* Times the date headers of the requests name: different from one another.
AmzTime == [sec |-> 1, nsec |-> 0]
HTTPTime == [sec |-> 2, nsec |-> 0]
BadDate == <<98, 97, 100>>                                       \* "bad"
OldToken == <<79, 84>>                                           \* "OT"

\* The values a request may carry under each header the signer looks at.
HeaderValues(k) ==
    IF k = DateHeader THEN {<<FormatTime(AmzTime)>>, <<BadDate>>, <<Empty>>}
    ELSE IF k = HTTPDateHeader THEN {<<FormatHTTP(HTTPTime)>>, <<BadDate>>}
    ELSE IF k = PayloadHashHeader THEN {<<UnsignedPayload>>}
    ELSE {<<OldToken>>}

HeaderNames == {DateHeader, HTTPDateHeader, PayloadHashHeader, securityToken}

Headers ==
    UNION {{h \in [K -> UNION {HeaderValues(k) : k \in K}] :
                \A k \in K : h[k] \in HeaderValues(k)} : K \in SUBSET HeaderNames}

\* The first n bytes of "abc...".
BodyData(n) == [i \in 1..n |-> 96 + i]

\* Request bodies: seekable (a Payload) or not, at any position, healthy or
\* failing on Read or on Seek.
BodyObjects ==
    {[kind |-> k, data |-> BodyData(n), pos |-> q, readErr |-> re,
      seekErr |-> se, reads |-> 0, seeks |-> 0] :
        k \in {"seeker", "reader"}, n \in 0..MaxBody, q \in 0..MaxBody,
        re \in BOOLEAN, se \in BOOLEAN}

Bodies == {o \in BodyObjects :
              /\ o.pos <= Len(o.data)
              /\ ~(o.readErr /\ o.seekErr)
              /\ o.kind = "reader" => ~o.seekErr}

Request(h, ptr) ==
    [Method |-> Method, URL |-> [Path |-> Root, RawQuery |-> Empty, Host |-> URLHost],
     Host |-> Empty, Header |-> h, Body |-> ptr]

otherVars == <<env, conf, credVars, canonVars, concVars, envrcVars>>

\* A request without a body: req.Body is nil or http.NoBody.  A behaviour
\* builds one request and signs it once.
NewRequestNoBody(h, ptr) ==
    /\ req' = Some(Request(h, ptr))
    /\ heap' = << >>
    /\ pre' = None /\ res' = None
    /\ UNCHANGED <<otherVars, sessVars>>

\* A request whose body is the object o.
NewRequestWithBody(h, o) ==
    /\ req' = Some(Request(h, "body"))
    /\ heap' = ("body" :> o)
    /\ pre' = None /\ res' = None
    /\ UNCHANGED <<otherVars, sessVars>>

\* s.Sign(req), once per request; time.Now() would return t.
Sign(t) ==
    /\ sess # None /\ res = None
    /\ \E p \in {signPrepare(sess[1], req[1], heap, t)} :
           /\ pre' = Some([req |-> req[1], heap |-> heap, sess |-> sess[1]])
           /\ heap' = p.heap
           /\ IF p.err # nil
              THEN /\ req' = Some(p.req)
                   /\ res' = Some([err |-> p.err, creq |-> Empty, sts |-> Empty,
                                   now |-> p.now])
              ELSE \E order \in Perms(DOMAIN p.req.Header) :
                       \E f \in {signFinish(sess[1], p, order)} :
                           /\ req' = Some(f.req)
                           /\ res' = Some([err |-> nil, creq |-> f.creq,
                                           sts |-> f.sts, now |-> p.now])
    /\ UNCHANGED <<otherVars, sessVars>>

\* A Config with credentials, with or without a session token.
InitSign ==
    /\ env = NoEnv
    /\ conf \in [kid : KeyIDs \ {Empty}, key : SecretKeys \ {Empty}, tok : SessionTokens]
    /\ InitCommon

\* time.Now() is read only by the last branch of ensureDate; for a request
\* that never gets there a single reading is enumerated.
ReadsClock(r) ==
    Get(r.Header, DateHeader) = Empty /\ Get(r.Header, HTTPDateHeader) = Empty
Epoch == [sec |-> 0, nsec |-> 0]

NextSign ==
    \/ \E r \in Regions, s \in Services, t \in Times :
           NewSession(r, s, t) /\ req = None
    \/ req = None /\ \E h \in Headers, ptr \in {"nil", "NoBody"} :
                         NewRequestNoBody(h, ptr)
    \/ req = None /\ \E h \in Headers, o \in Bodies : NewRequestWithBody(h, o)
    \/ \E t \in Times : req # None /\ (ReadsClock(req[1]) \/ t = Epoch) /\ Sign(t)

SpecSign == InitSign /\ [][NextSign]_vars

------------------------------------------------------------------------------
(* Claims about signing, checked under SpecSign.  In a state where res is   *)
(* set, pre holds the arguments of the sign call as they were when it was   *)
(* called, and req and heap are the request and the bodies as it left them. *)

Called == res # None
Succeeded == res # None /\ res[1].err = nil
Failed == res # None /\ res[1].err # nil

\* Does sub occur in s?
Contains(s, sub) ==
    \E i \in 1..(Len(s) - Len(sub) + 1) : SubSeq(s, i, i + Len(sub) - 1) = sub

EndsWith(s, sub) ==
    Len(sub) <= Len(s) /\ SubSeq(s, Len(s) - Len(sub) + 1, Len(s)) = sub

\* The position of the n-th byte sep of s: 0 for n = 0, and one past the end
\* of s when it has fewer.
NthSep(s, sep, n) ==
    IF n = 0 THEN 0
    ELSE IF Cardinality({j \in 1..Len(s) : s[j] = sep}) < n THEN Len(s) + 1
    ELSE CHOOSE i \in 1..Len(s) :
             /\ s[i] = sep
             /\ Cardinality({j \in 1..(i - 1) : s[j] = sep}) = n - 1

NthLF(s, n) == NthSep(s, 10, n)

\* The pieces of s between the bytes sep.
SplitOn(s, sep) ==
    [k \in 1..(Cardinality({j \in 1..Len(s) : s[j] = sep}) + 1) |->
        SubSeq(s, NthSep(s, sep, k - 1) + 1, NthSep(s, sep, k) - 1)]

\* The n-th line of s, which has more than n lines.
NthLine(s, n) == SubSeq(s, NthLF(s, n - 1) + 1, NthLF(s, n) - 1)

\* The bytes a consumer can still read from the body of request r.
Readable(r, hp) ==
    IF r.Body \in {"nil", "NoBody"} THEN Empty
    ELSE SubSeq(hp[r.Body].data, hp[r.Body].pos + 1, Len(hp[r.Body].data))

\* Is the body of the request as the call found it: the same object, not
\* read, not sought?
BodyUntouched == req[1].Body = pre[1].req.Body /\ heap = pre[1].heap

HasBody(r) == r.Body \notin {"nil", "NoBody"}

\* C4: when sign returns an error the header map is what it was before the
\* call; when it returns none, Authorization holds the single complete value
\* "AWS4-HMAC-SHA256 Credential=<scope joined by />, SignedHeaders=<names>,
\* Signature=<hex>", the names being the signed headers line of the canonical
\* request and the signature that of the string to sign under the session key.
C4_NoPartialSignature ==
    Called =>
        IF res[1].err # nil
        THEN req[1].Header = pre[1].req.Header
        ELSE \E i \in 1..Len(res[1].creq) :
                 /\ res[1].creq[i] = 10
                 /\ \E j \in (i + 1)..Len(res[1].creq) :
                        /\ res[1].creq[j] = 10
                        /\ \A k \in (i + 1)..(j - 1) : res[1].creq[k] # 10
                        /\ \A k \in (j + 1)..Len(res[1].creq) : res[1].creq[k] # 10
                        /\ req[1].Header[AuthorizationHeader] =
                               <<Algorithm \o CredentialPart \o
                                 Join(pre[1].sess.scope, <<47>>) \o
                                 SignedHeadersPart \o
                                 SubSeq(res[1].creq, i + 1, j - 1) \o
                                 SignaturePart \o
                                 Hex(Hmac(pre[1].sess.key, res[1].sts))>>

\* A sign that failed on the date of a request carrying an old security
\* token, under a session with a token.
C4_Witness ==
    /\ Failed /\ res[1].err = "ParseError"
    /\ pre[1].sess.token # Empty
    /\ securityToken \in DOMAIN pre[1].req.Header

\* C5 (as claimed): when sign returns the parse error of a pre-set date
\* header, the body has not been read, sought or replaced.
C5_DateErrorBeforeBodyWork ==
    (Called /\ res[1].err = "ParseError") => BodyUntouched

\* C5 (amended): when sign returns the parse error of a pre-set date header,
\* no header has been changed and nothing has been canonicalized or signed;
\* the body is untouched only if the payload hash header was set or there is
\* no body.  Otherwise it has been digested before the date was looked at: a
\* seekable body has been read once to its end and sought back to offset 0, a
\* non-seekable body has been read once to its end and replaced by a buffer
\* holding the bytes read.
C5_DateErrorAfterBodyDigest ==
    (Called /\ res[1].err = "ParseError") =>
        /\ req[1].Header = pre[1].req.Header
        /\ res[1].creq = Empty /\ res[1].sts = Empty
        /\ IF Get(pre[1].req.Header, PayloadHashHeader) # Empty
              \/ ~HasBody(pre[1].req)
           THEN BodyUntouched
           ELSE IF pre[1].heap["body"].kind = "seeker"
           THEN /\ req[1].Body = "body"
                /\ heap = [body |-> [pre[1].heap["body"] EXCEPT
                                        !.pos = 0, !.reads = 1, !.seeks = 1]]
           ELSE /\ req[1].Body = "buf"
                /\ heap["body"] = [pre[1].heap["body"] EXCEPT
                                      !.pos = Len(pre[1].heap["body"].data),
                                      !.reads = 1]
                /\ heap["buf"].data = Readable(pre[1].req, pre[1].heap)
                /\ heap["buf"].pos = 0

\* A sign that failed on the date after it had digested a seekable body that
\* was not at its start.
C5_Witness ==
    /\ Called /\ res[1].err = "ParseError"
    /\ HasBody(pre[1].req)
    /\ pre[1].heap["body"].kind = "seeker"
    /\ pre[1].heap["body"].pos > 0
    /\ heap["body"].reads = 1

\* C6: after a successful sign of a request with a body and no payload hash
\* header, the bytes readable from the body are the bytes that were readable
\* before; a seekable body is the same object at the position it had, a
\* non-seekable body has been read once and replaced by a body of the same
\* bytes.
C6_BodyIntegrity ==
    (/\ Succeeded
     /\ HasBody(pre[1].req)
     /\ Get(pre[1].req.Header, PayloadHashHeader) = Empty) =>
        /\ Readable(req[1], heap) = Readable(pre[1].req, pre[1].heap)
        /\ IF pre[1].heap["body"].kind = "seeker"
           THEN /\ req[1].Body = pre[1].req.Body
                /\ heap["body"].pos = pre[1].heap["body"].pos
           ELSE /\ req[1].Body # pre[1].req.Body
                /\ heap["body"].reads = 1

\* C7: a non-empty payload hash header is the last line of the canonical
\* request, keeps its value, and the body is not read, sought or replaced;
\* without the header, a nil or NoBody body gives the digest of the empty
\* string as the last line and is likewise left alone.
C7_PresetHashIsTrusted ==
    Called =>
        /\ Get(pre[1].req.Header, PayloadHashHeader) # Empty =>
               /\ BodyUntouched
               /\ req[1].Header[PayloadHashHeader] =
                      pre[1].req.Header[PayloadHashHeader]
               /\ Succeeded =>
                      EndsWith(res[1].creq,
                               NL \o Get(pre[1].req.Header, PayloadHashHeader))
        /\ (Get(pre[1].req.Header, PayloadHashHeader) = Empty
            /\ ~HasBody(pre[1].req)) =>
               /\ BodyUntouched
               /\ Succeeded => EndsWith(res[1].creq, NL \o Hex(Sha256(Empty)))

\* A successful sign of a request that carries the payload hash header and a
\* seekable body that is not at its start.
C7_Witness ==
    /\ Succeeded
    /\ Get(pre[1].req.Header, PayloadHashHeader) = UnsignedPayload
    /\ HasBody(pre[1].req)
    /\ pre[1].heap["body"].pos > 0

\* C8: after a successful sign the second line of the string to sign is the
\* time of X-Amz-Date when the request carried one (whatever Date says), else
\* the time of Date when it carried one, and then X-Amz-Date is not added,
\* else the current time, which X-Amz-Date is set to as YYYYMMDDTHHMMSSZ; one
\* of the two headers is there, and a date header the request carried keeps
\* its value.
C8_DateHandling ==
    Succeeded =>
        /\ IF Get(pre[1].req.Header, DateHeader) # Empty
           THEN /\ Get(pre[1].req.Header, DateHeader) = FormatTime(AmzTime)
                /\ NthLine(res[1].sts, 2) = FormatTime(AmzTime)
                /\ res[1].now = None
           ELSE IF Get(pre[1].req.Header, HTTPDateHeader) # Empty
           THEN /\ Get(pre[1].req.Header, HTTPDateHeader) = FormatHTTP(HTTPTime)
                /\ NthLine(res[1].sts, 2) = FormatTime(HTTPTime)
                /\ res[1].now = None
                /\ (DateHeader \in DOMAIN req[1].Header)
                       = (DateHeader \in DOMAIN pre[1].req.Header)
                /\ Get(req[1].Header, DateHeader) = Empty
           ELSE /\ res[1].now # None
                /\ req[1].Header[DateHeader] = <<FormatTime(res[1].now[1])>>
                /\ NthLine(res[1].sts, 2) = FormatTime(res[1].now[1])
        /\ \/ Get(req[1].Header, DateHeader) # Empty
           \/ Get(req[1].Header, HTTPDateHeader) # Empty
        /\ \A k \in {DateHeader, HTTPDateHeader} :
               Get(pre[1].req.Header, k) # Empty =>
                   req[1].Header[k] = pre[1].req.Header[k]

\* A successful sign of a request that carried Date and no X-Amz-Date.
C8_Witness ==
    /\ Succeeded
    /\ DateHeader \notin DOMAIN pre[1].req.Header
    /\ Get(pre[1].req.Header, HTTPDateHeader) = FormatHTTP(HTTPTime)

\* C9: after a successful sign under a session with a token, the security
\* token header is that token alone, its lower-cased name is among the signed
\* header names and its line among the canonical headers; under a session
\* without a token the header is what it was, whatever sign returns.
C9_SecurityToken ==
    Called =>
        IF pre[1].sess.token # Empty
        THEN Succeeded =>
                 /\ req[1].Header[securityToken] = <<pre[1].sess.token>>
                 /\ Contains(res[1].creq,
                             NL \o ToLower(securityToken) \o <<58>> \o
                             pre[1].sess.token \o NL)
                 /\ \/ Contains(res[1].creq,
                                <<59>> \o ToLower(securityToken) \o NL)
                    \/ Contains(res[1].creq,
                                <<59>> \o ToLower(securityToken) \o <<59>>)
        ELSE /\ (securityToken \in DOMAIN req[1].Header)
                    = (securityToken \in DOMAIN pre[1].req.Header)
             /\ Get(req[1].Header, securityToken)
                    = Get(pre[1].req.Header, securityToken)

\* A successful sign, under a session with a token, of a request that carried
\* another token.
C9_Witness ==
    /\ Succeeded
    /\ pre[1].sess.token # Empty
    /\ Get(pre[1].req.Header, securityToken) = OldToken

------------------------------------------------------------------------------
(* canonicalHeaders on its own: SpecCanon builds a request and canonicalizes *)
(* its headers, ranging over the header map in any order.                   *)

HeaderA == <<65>>                                                \* "A"
HeaderAB == <<65, 45, 66>>                                       \* "A-B"
HeaderHost == <<72, 111, 115, 116>>                              \* "Host"
CanonNames == {HeaderA, HeaderAB, HeaderHost}

\* "x", " x  y " and the two values "x", "y"
CanonValues == {<<<<120>>>>, <<<<32, 120, 32, 32, 121, 32>>>>, <<<<120>>, <<121>>>>}

CanonHeaders == UNION {[K -> CanonValues] : K \in SUBSET CanonNames}

\* req.Host: unset, or "H.io"
Hosts == {Empty, <<72, 46, 105, 111>>}

\* A request with the header map h and the Host field host.
NewCanonRequest(h, host) ==
    /\ hdrs = None
    /\ hdrs' = Some([Request(h, "nil") EXCEPT !.Host = host])
    /\ UNCHANGED <<canon, again, env, conf, credVars, sessVars, signVars, concVars, envrcVars>>

\* A call of canonicalHeaders(req).
CanonicalHeaders ==
    /\ hdrs # None /\ canon = None
    /\ \E order \in Perms(DOMAIN hdrs[1].Header) :
           canon' = Some(canonicalHeaders(hdrs[1], order))
    /\ UNCHANGED <<hdrs, again, env, conf, credVars, sessVars, signVars, concVars, envrcVars>>

\* The orders in which the values vv can have been added under one name.
ValueOrders(vv) == {[i \in 1..Len(vv) |-> vv[p[i]]] : p \in Perms(1..Len(vv))}

\* The header maps that hold the entries of h, the values under each name
\* added in any order.
Reinsertions(h) ==
    {g \in [DOMAIN h -> UNION {ValueOrders(h[k]) : k \in DOMAIN h}] :
        \A k \in DOMAIN h : g[k] \in ValueOrders(h[k])}

\* A call of canonicalHeaders on a request that differs from the first in
\* the order its header entries were put in.
CanonicalHeadersAgain ==
    /\ hdrs # None /\ again = None
    /\ \E g \in Reinsertions(hdrs[1].Header), order \in Perms(DOMAIN hdrs[1].Header) :
           again' = Some([req |-> [hdrs[1] EXCEPT !.Header = g],
                          out |-> canonicalHeaders([hdrs[1] EXCEPT !.Header = g],
                                                   order)])
    /\ UNCHANGED <<hdrs, canon, env, conf, credVars, sessVars, signVars, concVars, envrcVars>>

InitCanon == env = NoEnv /\ conf = [kid |-> Empty, key |-> Empty, tok |-> Empty] /\ InitCommon

NextCanon ==
    \/ hdrs = None /\ \E h \in CanonHeaders, host \in Hosts :
                          NewCanonRequest(h, host)
    \/ CanonicalHeaders
    \/ CanonicalHeadersAgain

SpecCanon == InitCanon /\ [][NextCanon]_vars

\* The name of a canonical header line: what precedes its first colon.
NameOf(line) == SubSeq(line, 1, NthSep(line, 58, 1) - 1)

\* The lines of the canonical headers, which end in a line feed.
CanonLines(c) == SplitOn(SubSeq(c, 1, Len(c) - 1), 10)

\* C10: the signed header names and the canonical header lines returned by
\* canonicalHeaders are as many, the i-th name is the name of the i-th line,
\* the names are in strictly ascending order, so none occurs twice, and host
\* is one of them.
C10_SignedNamesMatchCanonicalLines ==
    canon # None =>
        /\ Len(SplitOn(canon[1].signed, 59)) = Len(CanonLines(canon[1].canon))
        /\ \A i \in 1..Len(CanonLines(canon[1].canon)) :
               /\ i <= Len(SplitOn(canon[1].signed, 59))
               /\ NameOf(CanonLines(canon[1].canon)[i]) =
                      SplitOn(canon[1].signed, 59)[i]
        /\ \A i, j \in 1..Len(SplitOn(canon[1].signed, 59)) :
               i < j => StrLess(SplitOn(canon[1].signed, 59)[i],
                                SplitOn(canon[1].signed, 59)[j])
        /\ \E i \in 1..Len(SplitOn(canon[1].signed, 59)) :
               SplitOn(canon[1].signed, 59)[i] = HostName

\* Do h and g hold the same values under the same names, whatever the order
\* the values under a name come in?
SameEntries(h, g) ==
    /\ DOMAIN h = DOMAIN g
    /\ \A k \in DOMAIN h : g[k] \in ValueOrders(h[k])

\* C11: two requests that carry the same header entries, put in in different
\* orders, get the same canonical headers and the same signed header names.
C11_OrderIndependent ==
    (/\ canon # None /\ again # None
     /\ SameEntries(hdrs[1].Header, again[1].req.Header)) =>
        /\ again[1].out.canon = canon[1].canon
        /\ again[1].out.signed = canon[1].signed

------------------------------------------------------------------------------
(* Sign calls running at once.  SpecConc has two goroutines call sign on   *)
(* requests of their own with one Session; a call goes through sign a      *)
(* statement group at a time, and the steps of the calls interleave.       *)

Goroutines == {1, 2}

\* The header maps of the requests signed at once.
ConcHeaders ==
    {h \in Headers : /\ DOMAIN h \subseteq {DateHeader, securityToken}
                     /\ Get(h, DateHeader) # Empty \/ DateHeader \notin DOMAIN h}

\* Such a request has no body: a body belongs to one request and is not
\* shared between the calls.
ConcBodies == {[ptr |-> "nil", heap |-> << >>]}

Started(p) == p \in DOMAIN calls
At(p, pc) == p \in DOMAIN calls /\ calls[p].pc = pc

\* Is another call between its first step and its return?
Overlaps(p) ==
    \E q \in DOMAIN calls : q # p /\ calls[q].pc \notin {"digest", "done"}

concFrame == <<env, conf, credVars, sessVars, signVars, canonVars, envrcVars>>

\* Goroutine p calls s.sign(req) with a request of its own.  The goroutines
\* are alike, so they are taken to make their calls in the order of their
\* numbers.
SignCall(p, h, b) ==
    /\ sess # None /\ ~Started(p)
    /\ \A q \in Goroutines : q < p => Started(q)
    /\ calls' = calls @@
           (p :> [pc |-> "digest", req |-> Request(h, b.ptr), heap |-> b.heap,
                  pre |-> [req |-> Request(h, b.ptr), heap |-> b.heap,
                           sess |-> sess[1]],
                  bodyDigest |-> Empty, reqTime |-> Epoch, now |-> None,
                  ch |-> [canon |-> Empty, signed |-> Empty],
                  creq |-> Empty, sts |-> Empty, err |-> nil,
                  overlapped |-> FALSE])
    /\ UNCHANGED concFrame

\* sign, lines 212-218: the payload digest.
SignDigest(p) ==
    /\ At(p, "digest")
    /\ \E d \in {payloadDigest(calls[p].req, calls[p].heap)} :
           calls' = [calls EXCEPT ![p] =
               [@ EXCEPT !.pc = IF d.err # nil THEN "done" ELSE "date",
                         !.err = d.err, !.req = d.req, !.heap = d.heap,
                         !.bodyDigest = IF d.err # nil THEN Empty ELSE d.sum,
                         !.overlapped = @ \/ Overlaps(p)]]
    /\ UNCHANGED concFrame

\* A plausible bug: the Session's scope is brought up to the date of the
\* request being signed.
SignDate_rescopes(p, t) ==
    /\ At(p, "date")
    /\ \E e \in {ensureDate(calls[p].req.Header, t)} :
           /\ calls' = [calls EXCEPT ![p] =
                  [@ EXCEPT !.pc = IF e.err # nil THEN "done" ELSE "token",
                            !.err = e.err, !.req.Header = e.h,
                            !.reqTime = IF e.err # nil THEN Epoch ELSE e.t,
                            !.now = e.now,
                            !.overlapped = @ \/ Overlaps(p)]]
           /\ sess' = IF e.err # nil THEN sess
                      ELSE Some([sess[1] EXCEPT !.scope[2] = FormatDate(e.t)])
    /\ UNCHANGED <<env, conf, credVars, got, sessErr, signVars, canonVars, envrcVars>>

\* sign, lines 220-223: ensureDate, with time.Now() returning t.
SignDate(p, t) ==
    /\ At(p, "date")
    /\ \E e \in {ensureDate(calls[p].req.Header, t)} :
           calls' = [calls EXCEPT ![p] =
               [@ EXCEPT !.pc = IF e.err # nil THEN "done" ELSE "token",
                         !.err = e.err, !.req.Header = e.h,
                         !.reqTime = IF e.err # nil THEN Epoch ELSE e.t,
                         !.now = e.now,
                         !.overlapped = @ \/ Overlaps(p)]]
    /\ UNCHANGED concFrame

\* sign, lines 225-227: the security token, read from the Session.
SignToken(p) ==
    /\ At(p, "token")
    /\ calls' = [calls EXCEPT ![p] =
           [@ EXCEPT !.pc = "canon",
                     !.req.Header = setToken(sess[1], @),
                     !.overlapped = @ \/ Overlaps(p)]]
    /\ UNCHANGED concFrame

\* sign, lines 229-250: the canonical headers and the canonical request.
SignCanon(p) ==
    /\ At(p, "canon")
    /\ \E order \in Perms(DOMAIN calls[p].req.Header) :
           \E ch \in {canonicalHeaders(calls[p].req, order)} :
               calls' = [calls EXCEPT ![p] =
                   [@ EXCEPT !.pc = "sts", !.ch = ch,
                             !.creq = canonicalRequest(calls[p].req, ch,
                                                       calls[p].bodyDigest),
                             !.overlapped = @ \/ Overlaps(p)]]
    /\ UNCHANGED concFrame

\* sign, lines 252-260: the string to sign, the scope read from the Session.
SignSts(p) ==
    /\ At(p, "sts")
    /\ calls' = [calls EXCEPT ![p] =
           [@ EXCEPT !.pc = "auth",
                     !.sts = stringToSign(sess[1], calls[p].reqTime, calls[p].creq),
                     !.overlapped = @ \/ Overlaps(p)]]
    /\ UNCHANGED concFrame

\* sign, lines 262-276: the signature under the Session's key, and the
\* Authorization header.
SignAuth(p) ==
    /\ At(p, "auth")
    /\ calls' = [calls EXCEPT ![p] =
           [@ EXCEPT !.pc = "done",
                     !.req.Header =
                         Set(@, AuthorizationHeader,
                             authorization(sess[1], calls[p].ch.signed,
                                           calls[p].sts)),
                     !.overlapped = @ \/ Overlaps(p)]]
    /\ UNCHANGED concFrame

InitConc == InitSign

NextConc ==
    \/ \E r \in Regions, sv \in Services, t \in Times :
           sess = None /\ NewSession(r, sv, t)
    \/ \E p \in Goroutines, h \in ConcHeaders, b \in ConcBodies : SignCall(p, h, b)
    \/ \E p \in Goroutines : SignDigest(p)
    \/ \E p \in Goroutines, t \in WholeTimes :
           /\ Started(p)
           /\ ReadsClock(calls[p].req) \/ t = Epoch
           /\ SignDate(p, t)
    \/ \E p \in Goroutines : SignToken(p)
    \/ \E p \in Goroutines : SignCanon(p)
    \/ \E p \in Goroutines : SignSts(p)
    \/ \E p \in Goroutines : SignAuth(p)

SpecConc == InitConc /\ [][NextConc]_vars

\* Has the returned call c returned and left behind what s.sign(req) does when
\* nothing runs beside it, made with the Session and the request c was called
\* with and the clock reading c made, whatever order the header map is
\* ranged over in?
AsAlone(c) ==
    LET same(q) ==
            IF q.err # nil
            THEN /\ c.err = q.err /\ c.req = q.req /\ c.heap = q.heap
                 /\ c.creq = Empty /\ c.sts = Empty
            ELSE \A order \in Perms(DOMAIN q.req.Header) :
                     \E f \in {signFinish(c.pre.sess, q, order)} :
                         /\ c.err = nil /\ c.heap = q.heap
                         /\ c.req = f.req
                         /\ c.creq = f.creq /\ c.sts = f.sts
    IN  same(signPrepare(c.pre.sess, c.pre.req, c.pre.heap,
                         IF c.now = None THEN Epoch ELSE c.now[1]))

\* C12: no step of a sign call writes the Session, and a call that has
\* returned has returned and left behind what it would have on its own,
\* whatever steps of the other call ran in between: the same error, the same
\* canonical request and string to sign, the same request headers with the
\* same Authorization, the same body.
C12_ConcurrentSignsAsSequential ==
    \A p \in DOMAIN calls :
        /\ sess = Some(calls[p].pre.sess)
        /\ calls[p].pc = "done" => AsAlone(calls[p])

\* Two calls that overlapped have both returned without error, under a
\* Session with a token, on requests that differ.
C12_Witness ==
    /\ DOMAIN calls = Goroutines
    /\ \A p \in Goroutines :
           /\ calls[p].pc = "done" /\ calls[p].err = nil
           /\ calls[p].overlapped
           /\ calls[p].pre.sess.token # Empty
    /\ calls[1].pre.req # calls[2].pre.req

------------------------------------------------------------------------------
(* Package envrc: Chdir.  A cleaned path is whether it is absolute and its  *)
(* names; a file system gives each directory no envrc file, an unreadable   *)
(* one, or one with its common lines and its enter and exit lines.          *)

MaxDepth == 2

DirNames == {"p", "q"}

\* The cleaned paths of at most MaxDepth names: "/", "/p", "/p/q", ... and
\* ".", "p", "p/q", ...
NameSeqs == UNION {[1..n -> DirNames] : n \in 0..MaxDepth}
Paths == [abs : BOOLEAN, names : NameSeqs]

HeadLine == <<104, 10>>                                          \* "h\n"
EnterLine == <<101, 10>>                                         \* "e\n"
ExitLine == <<120, 10>>                                          \* "x\n"

NoFile == [kind |-> "none"]
Unreadable == [kind |-> "unreadable"]
File(h, e, x) == [kind |-> "file", head |-> h, enter |-> e, exit |-> x]

\* What eval may find in a directory.
Files ==
    {NoFile, Unreadable,
     File(Empty, EnterLine, ExitLine), File(Empty, EnterLine, Empty),
     File(Empty, Empty, ExitLine), File(HeadLine, Empty, Empty)}

\* The file systems: every directory alike but for at most one.
FileSystems ==
    {[d \in NameSeqs |-> IF d = x THEN f ELSE g] :
        x \in NameSeqs, f \in Files, g \in {NoFile, File(Empty, EnterLine, ExitLine)}}

\* The closure trim of Parse: strings.TrimLeft and TrimRight by "\n".
RECURSIVE trimNewlines(_)
trimNewlines(t) ==
    IF Len(t) > 0 /\ t[1] = 10 THEN trimNewlines(Tail(t))
    ELSE IF Len(t) > 0 /\ t[Len(t)] = 10 THEN trimNewlines(SubSeq(t, 1, Len(t) - 1))
    ELSE t

\* Parse(r) for a file of the given common, enter and exit lines.
Parse(f) ==
    [enter |-> trimNewlines(f.head \o f.enter),
     exit  |-> trimNewlines(f.head \o f.exit), err |-> nil]

\* eval(path) in the file system fs.
eval(fs, path) ==
    IF fs[path.names].kind = "none"
    THEN [enter |-> Empty, exit |-> Empty, err |-> nil]
    ELSE IF fs[path.names].kind = "unreadable"
    THEN [enter |-> Empty, exit |-> Empty, err |-> "OpenError"]
    ELSE Parse(fs[path.names])

\* The number of leading names a and b share.
RECURSIVE CommonLen(_, _)
CommonLen(a, b) ==
    IF Len(a) > 0 /\ Len(b) > 0 /\ a[1] = b[1]
    THEN 1 + CommonLen(Tail(a), Tail(b)) ELSE 0

\* strings.Split(filepath.Rel(a, b), sep): the hops from a to b, "." when
\* they are the same path, and an error when only one of them is absolute.
Rel(a, b) ==
    IF a.abs # b.abs THEN [err |-> "RelError", hops |-> << >>]
    ELSE LET c == CommonLen(a.names, b.names)
             r == [i \in 1..(Len(a.names) - c) |-> ".."] \o
                  SubSeq(b.names, c + 1, Len(b.names))
         IN  [err |-> nil, hops |-> IF r = << >> THEN <<".">> ELSE r]

\* filepath.Join(dir, hop)
PathJoin(dir, hop) ==
    IF hop = "." THEN dir
    ELSE IF hop = ".."
    THEN [dir EXCEPT !.names = SubSeq(@, 1, Len(@) - 1)]
    ELSE [dir EXCEPT !.names = Append(@, hop)]

\* The loop of Chdir from hop i on, prev being hops[i-1] and trail the
\* callbacks made so far.
RECURSIVE ChdirLoop(_, _, _, _, _)
ChdirLoop(fs, hops, prev, i, trail) ==
    IF i > Len(hops) THEN [err |-> nil, trail |-> trail]
    ELSE LET here == PathJoin(prev, hops[i])
             path == IF hops[i] = ".." THEN prev ELSE here
             ev   == eval(fs, path)
             data == IF hops[i] = ".." THEN ev.exit ELSE ev.enter
         IN  IF ev.err # nil THEN [err |-> ev.err, trail |-> trail]
             ELSE ChdirLoop(fs, hops, here, i + 1,
                            IF data # Empty
                            THEN Append(trail, [path |-> path, data |-> data])
                            ELSE trail)

\* Chdir(a, b, chdir): the error it returns and the calls of chdir it makes.
Chdir(fs, a, b) ==
    LET r == Rel(a, b)
    IN  IF r.err # nil THEN [err |-> r.err, trail |-> << >>]
        ELSE ChdirLoop(fs, r.hops, a, 1, << >>)

envrcFrame == <<env, conf, credVars, sessVars, signVars, canonVars, concVars>>

\* A file system and the two directories of a change.
ChdirSetup(fs, a, b) ==
    /\ cd = None
    /\ cd' = Some([fs |-> fs, a |-> a, b |-> b, done |-> FALSE,
                   err |-> nil, trail |-> << >>])
    /\ UNCHANGED envrcFrame

\* The call Chdir(a, b, chdir).
ChdirCall ==
    /\ cd # None /\ ~cd[1].done
    /\ \E out \in {Chdir(cd[1].fs, cd[1].a, cd[1].b)} :
           cd' = Some([cd[1] EXCEPT !.done = TRUE, !.err = out.err,
                                    !.trail = out.trail])
    /\ UNCHANGED envrcFrame

InitChdir == InitCanon

NextChdir ==
    \/ cd = None /\ \E fs \in FileSystems, a \in Paths, b \in Paths :
                        ChdirSetup(fs, a, b)
    \/ ChdirCall

SpecChdir == InitChdir /\ [][NextChdir]_vars

\* The first n names of path.
Ancestor(path, n) == [path EXCEPT !.names = SubSeq(@, 1, n)]

\* The path changes from a to b: the directories left, deepest first, each
\* with its exit section, then the directories entered, shallowest first,
\* each with its enter section.
Changes(fs, a, b) ==
    [i \in 1..(Len(a.names) - CommonLen(a.names, b.names)) |->
        [path |-> Ancestor(a, Len(a.names) + 1 - i), section |-> "exit"]] \o
    [i \in 1..(Len(b.names) - CommonLen(a.names, b.names)) |->
        [path |-> Ancestor(b, CommonLen(a.names, b.names) + i),
         section |-> "enter"]]

\* The section of the envrc file of a change, and whether reading it fails.
SectionOf(fs, ch) ==
    IF ch.section = "exit" THEN eval(fs, ch.path).exit ELSE eval(fs, ch.path).enter

Fails(fs, ch) == eval(fs, ch.path).err # nil

\* The callbacks the changes chs call for: one for every change whose section
\* is not empty, up to the first change whose envrc file cannot be read.
RECURSIVE Callbacks(_, _)
Callbacks(fs, chs) ==
    IF chs = << >> \/ Fails(fs, Head(chs)) THEN << >>
    ELSE (IF SectionOf(fs, Head(chs)) # Empty
          THEN <<[path |-> Head(chs).path, data |-> SectionOf(fs, Head(chs))]>>
          ELSE << >>) \o Callbacks(fs, Tail(chs))

\* C13: Chdir(a, b, chdir) between two paths it can relate calls chdir once
\* for every directory left, deepest first, that has a non-empty exit section
\* and then once for every directory entered, shallowest first, that has a
\* non-empty enter section, with the directory's path and that section, and
\* for no other directory, so not at all when a and b are the same; it stops
\* with the error at the first directory whose envrc file cannot be read.
C13_ChdirCallbacks ==
    (cd # None /\ cd[1].done /\ cd[1].a.abs = cd[1].b.abs) =>
        /\ cd[1].trail = Callbacks(cd[1].fs, Changes(cd[1].fs, cd[1].a, cd[1].b))
        /\ (cd[1].err # nil) =
               (\E i \in 1..Len(Changes(cd[1].fs, cd[1].a, cd[1].b)) :
                    Fails(cd[1].fs, Changes(cd[1].fs, cd[1].a, cd[1].b)[i]))

==============================================================================
